---- MODULE Spec2Model ----
(***************************************************************************)
(* Model of appbiotic_api_prost_serde_build::build                         *)
(* (crates/prost-serde-build/src/lib.rs): the extern path aggregator, the  *)
(* descriptor walker and the package spec emitter.                         *)
(*                                                                         *)
(* Strings whose characters the code inspects or concatenates (type names, *)
(* package names, proto paths, rust paths) are sequences of one-character  *)
(* strings.  File names, of which the code only tests equality, are TLA+   *)
(* strings.                                                                *)
(***************************************************************************)
EXTENDS Integers, Sequences, FiniteSets, Bags, TLC

(***************************************************************************)
(* Characters                                                              *)
(***************************************************************************)

\* The characters of the model in ascending code point order, which is the
\* order Rust's derived Ord on String (byte-wise comparison) uses.
Alphabet ==
    << "-", ".", "0", "1", "2", "3", "4", "5", "6", "7", "8", "9", ":",
       "A", "B", "C", "D", "E", "F", "G", "H", "I", "J", "K", "L", "M",
       "N", "O", "P", "Q", "R", "S", "T", "U", "V", "W", "X", "Y", "Z",
       "_", "a", "b", "c", "d", "e", "f", "g", "h", "i", "j", "k", "l",
       "m", "n", "o", "p", "q", "r", "s", "t", "u", "v", "w", "x", "y",
       "z" >>

Code(c) == CHOOSE i \in 1..Len(Alphabet) : Alphabet[i] = c

UpperSeq ==
    << "A", "B", "C", "D", "E", "F", "G", "H", "I", "J", "K", "L", "M",
       "N", "O", "P", "Q", "R", "S", "T", "U", "V", "W", "X", "Y", "Z" >>
LowerSeq ==
    << "a", "b", "c", "d", "e", "f", "g", "h", "i", "j", "k", "l", "m",
       "n", "o", "p", "q", "r", "s", "t", "u", "v", "w", "x", "y", "z" >>
DigitChars == {"0", "1", "2", "3", "4", "5", "6", "7", "8", "9"}
UpperChars == {UpperSeq[i] : i \in 1..Len(UpperSeq)}
LowerChars == {LowerSeq[i] : i \in 1..Len(LowerSeq)}

is_uppercase(c) == c \in UpperChars
is_lowercase(c) == c \in LowerChars
is_alphanumeric(c) == c \in UpperChars \cup LowerChars \cup DigitChars

to_lowercase(c) ==
    IF c \in UpperChars
    THEN LowerSeq[CHOOSE i \in 1..Len(UpperSeq) : UpperSeq[i] = c]
    ELSE c

to_uppercase(c) ==
    IF c \in LowerChars
    THEN UpperSeq[CHOOSE i \in 1..Len(LowerSeq) : LowerSeq[i] = c]
    ELSE c

\* Lexicographic comparison of two strings: -1, 0 or 1 (Ord for String).
RECURSIVE StrCmp(_, _)
StrCmp(s, t) ==
    IF s = <<>> /\ t = <<>> THEN 0
    ELSE IF s = <<>> THEN -1
    ELSE IF t = <<>> THEN 1
    ELSE IF Code(Head(s)) < Code(Head(t)) THEN -1
    ELSE IF Code(Head(s)) > Code(Head(t)) THEN 1
    ELSE StrCmp(Tail(s), Tail(t))

(***************************************************************************)
(* heck::ToLowerCamelCase, as called at lib.rs:147, 178 and 189            *)
(***************************************************************************)

\* lowercase(s): every character lowercased.
lowercase(s) == [i \in 1..Len(s) |-> to_lowercase(s[i])]

\* capitalize(s): first character uppercased, the rest lowercased.
capitalize(s) ==
    [i \in 1..Len(s) |-> IF i = 1 THEN to_uppercase(s[i]) ELSE to_lowercase(s[i])]

\* The segments of s between non-alphanumeric characters
\* (s.split(|c| !c.is_alphanumeric())); empty segments are kept, as split does.
RECURSIVE SplitSegments(_, _)
SplitSegments(s, cur) ==
    IF s = <<>> THEN <<cur>>
    ELSE IF is_alphanumeric(Head(s)) THEN SplitSegments(Tail(s), Append(cur, Head(s)))
    ELSE <<cur>> \o SplitSegments(Tail(s), <<>>)

\* The words of one segment: heck's transform loop.  i is the index of the
\* current character, init the start of the current word and mode one of
\* "Boundary", "Lowercase", "Uppercase".
RECURSIVE SegmentWords(_, _, _, _)
SegmentWords(w, i, init, mode) ==
    IF i > Len(w) THEN <<>>
    ELSE IF i = Len(w) THEN << SubSeq(w, init, Len(w)) >>
    ELSE
        LET c == w[i]
            next == w[i + 1]
            next_mode == IF is_lowercase(c) THEN "Lowercase"
                         ELSE IF is_uppercase(c) THEN "Uppercase"
                         ELSE mode
        IN  IF next_mode = "Lowercase" /\ is_uppercase(next)
            THEN << SubSeq(w, init, i) >> \o SegmentWords(w, i + 1, i + 1, "Boundary")
            ELSE IF mode = "Uppercase" /\ is_uppercase(c) /\ is_lowercase(next)
            THEN << SubSeq(w, init, i - 1) >> \o SegmentWords(w, i + 1, i, "Boundary")
            ELSE SegmentWords(w, i + 1, init, next_mode)

\* All the words of s, in order.
RECURSIVE WordsOf(_)
WordsOf(segs) ==
    IF segs = <<>> THEN <<>>
    ELSE SegmentWords(Head(segs), 1, 1, "Boundary") \o WordsOf(Tail(segs))

RECURSIVE JoinCapitalized(_)
JoinCapitalized(words) ==
    IF words = <<>> THEN <<>>
    ELSE capitalize(Head(words)) \o JoinCapitalized(Tail(words))

\* The first word lowercased, every later word capitalized, no separator.
to_lower_camel_case(s) ==
    LET words == WordsOf(SplitSegments(s, <<>>))
    IN  IF words = <<>> THEN <<>>
        ELSE lowercase(Head(words)) \o JoinCapitalized(Tail(words))


(***************************************************************************)
(* Bounds of the model                                                     *)
(***************************************************************************)

\* Messages and enums in one descriptor set.
MaxTypes == 3
\* Dependency specs handed to build().
MaxDeps == 2
\* Top-level messages of the descriptor set whose spec outgrows the BufWriter.
LargeTypes == 90

(***************************************************************************)
(* Data types of crates/protogen-spec/src/lib.rs                           *)
(***************************************************************************)

\* ExternPath { proto_path, rust_path }
ExternPath(proto_path, rust_path) ==
    [proto_path |-> proto_path, rust_path |-> rust_path]

\* ProtoSrc { dir, files }
ProtoSrc(dir, files) == [dir |-> dir, files |-> files]

\* RustPackage; version and path are not read by build().
RustPackage(name, proto_package_name, wkp, protos, deps) ==
    [name |-> name, proto_package_name |-> proto_package_name,
     compile_well_known_protos |-> wkp, protos |-> protos,
     protogen_dependencies |-> deps]

\* ProtoPackageSpec { name, extern_paths }
ProtoPackageSpec(name, extern_paths) ==
    [name |-> name, extern_paths |-> extern_paths]

\* Ord for ExternPath, derived: by proto_path, then by rust_path.
ExternPathCmp(a, b) ==
    IF StrCmp(a.proto_path, b.proto_path) # 0
    THEN StrCmp(a.proto_path, b.proto_path)
    ELSE StrCmp(a.rust_path, b.rust_path)

\* The embedded well-known type table (prost-wkt-extern-paths.json).
prost_wkt_extern_paths ==
    { ExternPath(
        << ".", "g", "o", "o", "g", "l", "e", ".", "p", "r", "o", "t", "o",
           "b", "u", "f", ".", "A", "n", "y" >>,
        << ":", ":", "p", "r", "o", "s", "t", "_", "w", "k", "t", "_", "t",
           "y", "p", "e", "s", ":", ":", "A", "n", "y" >>) }

(***************************************************************************)
(* Inputs of the model                                                     *)
(***************************************************************************)

\* Protobuf package names.
PkgP == << "p", ".", "v", "1" >>
PkgQ == << "q" >>

\* Message and enum names.
TypeNames == { << "A" >>, << "B", "_", "c" >> }

FileNames == << "a.proto", "b.proto" >>

\* The name of the package being built, and a name no package has.
PackageName == << "g", "e", "o", "-", "a", "p", "i" >>
OtherName == << "x" >>

\* The proto source groups a package may declare.
ProtosChoices ==
    { << >>,
      << ProtoSrc("d1", << "a.proto" >>) >>,
      << ProtoSrc("d1", << "b.proto" >>) >>,
      << ProtoSrc("d1", << "a.proto", "b.proto" >>) >>,
      << ProtoSrc("d1", << "a.proto" >>), ProtoSrc("d2", << "b.proto", "a.proto" >>) >> }

\* The extern paths dependency specs are made of: two bindings of one proto
\* path, and a binding of another.
DepPathPool ==
    { ExternPath(<< ".", "q", ".", "A" >>, << "x", ":", ":", "A" >>),
      ExternPath(<< ".", "q", ".", "A" >>, << "y", ":", ":", "A" >>),
      ExternPath(<< ".", "q", ".", "B" >>, << "x", ":", ":", "B" >>) }

DepNames == { "geo", "std" }

\* All sequences over S of length at most n.
RECURSIVE SeqsUpTo(_, _)
SeqsUpTo(S, n) ==
    IF n = 0 THEN { << >> }
    ELSE LET shorter == SeqsUpTo(S, n - 1)
         IN  shorter \cup { Append(q[1], q[2]) : q \in shorter \X S }

\* A dependency spec has no extern path or one of the pool.
DepSpecs ==
    { ProtoPackageSpec(q[1], q[2]) :
        q \in DepNames \X ({ << >> } \cup { << e >> : e \in DepPathPool }) }

DependencyLists == SeqsUpTo(DepSpecs, MaxDeps)

(***************************************************************************)
(* The descriptor set the compiler frontend returns                        *)
(*                                                                         *)
(* A descriptor set is [file, types]: file is the list of                  *)
(* FileDescriptorProto (name, package) and types the table of every        *)
(* DescriptorProto and EnumDescriptorProto in it.  A row names its file,   *)
(* its parent row (0 for a top-level type), its kind and its name.  Rows   *)
(* are numbered breadth first: the top-level types file by file, then the  *)
(* members of row 1, of row 2, ...; among siblings the message list comes  *)
(* before the enum list, each in declaration order.                        *)
(***************************************************************************)

FileIndex(name) == CHOOSE i \in 1..Len(FileNames) : FileNames[i] = name

KindRank(kind) == IF kind = "Message" THEN 0 ELSE 1

\* The lists of files: a.proto is in package p.v1, b.proto in p.v1 or q.
FileLists ==
    { << [name |-> "a.proto", package |-> PkgP], [name |-> "b.proto", package |-> pk] >> :
        pk \in {PkgP, PkgQ} }

\* The protobuf package of the file called name.
PackageOfFile(file, name) ==
    file[CHOOSE i \in 1..Len(file) : file[i].name = name].package

\* The rows that may follow table t in the breadth first numbering: a
\* top-level type of a file no earlier than the last one's, or a member of a
\* message row no earlier than the last row's parent.
TypeRows(t) ==
    LET last == IF t = << >> THEN 0 ELSE t[Len(t)].parent
        tops == IF last = 0
                THEN { [file |-> FileNames[i], parent |-> 0] :
                         i \in { j \in 1..Len(FileNames) :
                                    t = << >> \/ FileIndex(t[Len(t)].file) <= j } }
                ELSE {}
        members == { [file |-> t[p].file, parent |-> p] :
                       p \in { q \in 1..Len(t) : q >= last /\ q > 0 /\ t[q].kind = "Message" } }
    IN  { [file |-> fp.file, parent |-> fp.parent, kind |-> kn[1], name |-> kn[2]] :
            fp \in tops \cup members, kn \in {"Message", "Enum"} \X TypeNames }

\* Row r keeps the numbering: among siblings of one file the messages come
\* before the enums.
RowOrderOk(p, r) ==
    (p.parent = r.parent /\ p.file = r.file) => KindRank(p.kind) <= KindRank(r.kind)

\* Row r may be appended to table t: the numbering is kept and protoc accepts
\* the name (no other type of the same scope has it).
RowFits(file, t, r) ==
    /\ t # << >> => RowOrderOk(t[Len(t)], r)
    /\ \A j \in 1..Len(t) :
          ~ /\ t[j].name = r.name
            /\ t[j].parent = r.parent
            /\ PackageOfFile(file, t[j].file) = PackageOfFile(file, r.file)

\* The tables of exactly n rows, and those of at most n rows.
RECURSIVE TablesOfLen(_, _)
TablesOfLen(file, n) ==
    IF n = 0 THEN { << >> }
    ELSE UNION { { Append(t, r) : r \in { x \in TypeRows(t) : RowFits(file, t, x) } } :
                    t \in TablesOfLen(file, n - 1) }

TypeTables(file, n) == UNION { TablesOfLen(file, k) : k \in 0..n }

(***************************************************************************)
(* State                                                                   *)
(***************************************************************************)

VARIABLES
    protogen_spec,   \* argument: [rust : Seq(RustPackage)]
    package_name,    \* argument
    dependencies,    \* argument: Seq(ProtoPackageSpec)
    protoc_output,   \* the descriptor set the compiler frontend produces
    prior_spec_file, \* _proto_package_spec.json as the build finds it
    pc,              \* position of build()
    result,          \* "running", "Ok", or the failure build() ended in
    pending,         \* elements of the HashSet the for loop has yet to visit
    prost_config,    \* [extern_paths : bag of calls, compile_well_known_types]
    descriptor,      \* the decoded FileDescriptorSet
    types,           \* VecDeque<ProtoType>
    extern_paths,    \* Vec<ExternPath>
    spec_file,       \* _proto_package_spec.json on disk
    writer,          \* the writes to spec_file yet to be done, the drop's last
    out_dir,         \* the other files of the output directory
    seen             \* what a dependent's build read from spec_file, if it has

vars ==
    << protogen_spec, package_name, dependencies, protoc_output, prior_spec_file,
       pc, result, pending, prost_config, descriptor, types, extern_paths, spec_file,
       writer, out_dir, seen >>

inputs == << protogen_spec, package_name, dependencies, protoc_output, prior_spec_file >>

Absent == [exists |-> FALSE, data |-> << >>]

NoDescriptor == [file |-> << >>, types |-> << >>]

(***************************************************************************)
(* Serialization of a ProtoPackageSpec (serde_json::to_writer_pretty)      *)
(*                                                                         *)
(* The text is modelled as tokens: the opening of the object with the      *)
(* name, one token per extern path, and the closing.  extern_paths is      *)
(* skipped when empty (skip_serializing_if), which leaves no entry token.  *)
(* A file's data lists the tokens that are on disk whole; the bytes of a   *)
(* token that is on disk in part are not shown.                            *)
(***************************************************************************)

Serialize(spec) ==
    << [t |-> "open", name |-> spec.name] >>
    \o [i \in 1..Len(spec.extern_paths) |->
            [t |-> "entry", proto_path |-> spec.extern_paths[i].proto_path,
             rust_path |-> spec.extern_paths[i].rust_path]]
    \o << [t |-> "close"] >>

\* The pretty formatter hands the text to the writer piece by piece, one
\* write_all each; a piece is given here by its length in bytes.  A string is
\* its opening quote, its characters (the alphabet has none that JSON escapes)
\* and its closing quote.
StringPieces(s) == IF s = << >> THEN << 1, 1 >> ELSE << 1, Len(s), 1 >>

\* A field name of n characters.
KeyPieces(n) == << 1, n, 1 >>

\* n levels of indentation, two spaces each.
IndentPieces(n) == [i \in 1..n |-> 2]

\* {
\*   "name": "...",
\*   "extern_paths": [
OpenPieces(spec) ==
    << 1, 1 >> \o IndentPieces(1) \o KeyPieces(4) \o << 2 >> \o StringPieces(spec.name)
    \o IF spec.extern_paths = << >> THEN << >>
       ELSE << 2 >> \o IndentPieces(1) \o KeyPieces(12) \o << 2, 1 >>

\*     {
\*       "proto_path": "...",
\*       "rust_path": "..."
\*     }
\* after a line break, which follows a comma unless the entry is the first.
EntryPieces(e, first) ==
    << IF first THEN 1 ELSE 2 >> \o IndentPieces(2) \o << 1 >>
    \o << 1 >> \o IndentPieces(3) \o KeyPieces(10) \o << 2 >> \o StringPieces(e.proto_path)
    \o << 2 >> \o IndentPieces(3) \o KeyPieces(9) \o << 2 >> \o StringPieces(e.rust_path)
    \o << 1 >> \o IndentPieces(2) \o << 1 >>

\*   ]
\* }
ClosePieces(spec) ==
    (IF spec.extern_paths = << >> THEN << >> ELSE << 1 >> \o IndentPieces(1) \o << 1 >>)
    \o << 1, 1 >>

\* The pieces of the i-th token of Serialize(spec).
TokenPieces(spec, i) ==
    IF i = 1 THEN OpenPieces(spec)
    ELSE IF i = Len(spec.extern_paths) + 2 THEN ClosePieces(spec)
    ELSE EntryPieces(spec.extern_paths[i - 1], i = 2)

(***************************************************************************)
(* std::io::BufWriter, as BufWriter::new makes it                          *)
(*                                                                         *)
(* A BufWriter is [buf, held, writes]: buf is the number of bytes in its   *)
(* buffer, held the tokens whose last byte is among them, and writes the   *)
(* writes to the file it has called for so far, each given by the tokens   *)
(* that are whole on disk once it is done.                                 *)
(***************************************************************************)

\* The capacity of the buffer in bytes.
BufCap == 8192

NewBufWriter == [buf |-> 0, held |-> << >>, writes |-> << >>]

\* write_all of a piece of n bytes that ends the tokens in done: a piece
\* larger than the room left has the buffer written out first (if it holds
\* anything), and a piece of the buffer's capacity or more goes to the file
\* directly.
write_all(w, n, done) ==
    LET flushed == IF n > BufCap - w.buf /\ w.buf > 0
                   THEN [buf |-> 0, held |-> << >>, writes |-> Append(w.writes, w.held)]
                   ELSE w
    IN  IF n >= BufCap
        THEN [flushed EXCEPT !.writes = Append(@, done)]
        ELSE [flushed EXCEPT !.buf = @ + n, !.held = @ \o done]

\* The pieces of token tok from the i-th on, in order; the last one ends the
\* token.  (The test of w.buf is never true: it has w worked out before the
\* next piece is taken up.)
RECURSIVE WritePieces(_, _, _, _)
WritePieces(w, sizes, i, tok) ==
    IF i > Len(sizes) \/ w.buf < 0 THEN w
    ELSE WritePieces(write_all(w, sizes[i], IF i = Len(sizes) THEN << tok >> ELSE << >>),
                     sizes, i + 1, tok)

\* The tokens lo..hi of spec, in order: the first half of them, then the
\* rest.
RECURSIVE WriteTokens(_, _, _, _, _)
WriteTokens(w, spec, tokens, lo, hi) ==
    IF lo > hi THEN w
    ELSE IF lo = hi THEN WritePieces(w, TokenPieces(spec, lo), 1, tokens[lo])
    ELSE LET mid == (lo + hi) \div 2
             half == WriteTokens(w, spec, tokens, lo, mid)
         IN  IF half.buf < 0 THEN half
             ELSE WriteTokens(half, spec, tokens, mid + 1, hi)

\* The writes to the file that serializing spec calls for, in order, followed
\* by what the buffer holds when to_writer_pretty returns.
to_writer_pretty(spec) ==
    LET tokens == Serialize(spec)
        w == WriteTokens(NewBufWriter, spec, tokens, 1, Len(tokens))
    IN  Append(w.writes, w.held)

\* data is a whole serialized spec: what serde_json::from_reader accepts.
IsCompleteSpec(data) ==
    /\ Len(data) >= 2
    /\ data[1].t = "open"
    /\ data[Len(data)].t = "close"
    /\ \A i \in 2..(Len(data) - 1) : data[i].t = "entry"

\* The spec a previous build of the package left on disk.
OldSpecFile ==
    [exists |-> TRUE,
     data |-> Serialize(ProtoPackageSpec(PackageName,
                << ExternPath(<< ".", "p", ".", "v", "1", ".", "A" >>,
                              << "o", "l", "d", ":", ":", "A" >>) >>))]

(***************************************************************************)
(* Initial states: the arguments of build() and its environment            *)
(***************************************************************************)

DefaultProtos == << ProtoSrc("d1", << "a.proto" >>) >>

DefaultDescriptor ==
    [file |-> << [name |-> "a.proto", package |-> PkgP],
                 [name |-> "b.proto", package |-> PkgQ] >>,
     types |-> << [file |-> "a.proto", parent |-> 0, kind |-> "Message", name |-> << "A" >>],
                  [file |-> "a.proto", parent |-> 1, kind |-> "Enum", name |-> << "a", "B" >>] >>]

InitControl ==
    /\ pc = "create_dir_all"
    /\ result = "running"
    /\ pending = {}
    /\ prost_config = [extern_paths |-> EmptyBag, compile_well_known_types |-> FALSE]
    /\ descriptor = NoDescriptor
    /\ types = << >>
    /\ extern_paths = << >>
    /\ spec_file = prior_spec_file
    /\ writer = << >>
    /\ out_dir = {}
    /\ seen = << >>

\* Builds that vary the declared proto sources and the descriptor set.
InitWalker ==
    /\ \E file \in FileLists :
          \E table \in TypeTables(file, MaxTypes) :
              protoc_output = [file |-> file, types |-> table]
    /\ \E protos \in ProtosChoices :
          protogen_spec =
              [rust |-> << RustPackage(PackageName, PkgP, FALSE, protos, << >>) >>]
    /\ package_name = PackageName
    /\ dependencies = << >>
    /\ prior_spec_file = Absent

\* Builds that vary the dependency specs, the declared dependencies, the
\* package asked for and the spec file a previous build left.
InitAggregator ==
    /\ \E deps \in { << >>, << "geo" >> } :
          protogen_spec =
              [rust |-> << RustPackage(PackageName, PkgP, TRUE, DefaultProtos, deps) >>]
    /\ package_name \in {PackageName, OtherName}
    /\ dependencies \in DependencyLists
    /\ protoc_output = DefaultDescriptor
    /\ prior_spec_file \in {Absent, OldSpecFile}

\* The digits of n.
DigitSeq == << "0", "1", "2", "3", "4", "5", "6", "7", "8", "9" >>

RECURSIVE Decimal(_)
Decimal(n) ==
    IF n < 10 THEN << DigitSeq[n + 1] >>
    ELSE Decimal(n \div 10) \o << DigitSeq[(n % 10) + 1] >>

\* a.proto declares the messages M0, M1, ...: enough of them for the
\* serialized spec not to fit the BufWriter's buffer.
LargeDescriptor ==
    [file |-> << [name |-> "a.proto", package |-> PkgP],
                 [name |-> "b.proto", package |-> PkgQ] >>,
     types |-> [i \in 1..LargeTypes |->
                  [file |-> "a.proto", parent |-> 0, kind |-> "Message",
                   name |-> << "M" >> \o Decimal(i - 1)]]]

\* The build of a package with that many types.
InitLarge ==
    /\ protogen_spec =
          [rust |-> << RustPackage(PackageName, PkgP, FALSE, DefaultProtos, << >>) >>]
    /\ package_name = PackageName
    /\ dependencies = << >>
    /\ protoc_output = LargeDescriptor
    /\ prior_spec_file = Absent

Init == (InitWalker \/ InitAggregator \/ InitLarge) /\ InitControl


(***************************************************************************)
(* build(), lib.rs:51-278                                                  *)
(***************************************************************************)

Fail(how) ==
    /\ pc' = "done"
    /\ result' = how

\* lib.rs:75-81: the first package of the spec called package_name, or 0.
FindPackage(spec, name) ==
    IF \E i \in 1..Len(spec.rust) : spec.rust[i].name = name
    THEN CHOOSE i \in 1..Len(spec.rust) :
            /\ spec.rust[i].name = name
            /\ \A j \in 1..(i - 1) : spec.rust[j].name # name
    ELSE 0

rust_package == protogen_spec.rust[FindPackage(protogen_spec, package_name)]

\* lib.rs:83-84: HashMap::from_iter keeps, for each name, the last spec of the list.
DependenciesMap(deps) ==
    [n \in {deps[i].name : i \in 1..Len(deps)} |->
        deps[CHOOSE i \in 1..Len(deps) :
                /\ deps[i].name = n
                /\ \A j \in (i + 1)..Len(deps) : deps[j].name # n]]

\* lib.rs:86-91: the HashSet of the dependencies' extern paths and the
\* well-known table; its elements are whole ExternPath values.
AggregateExternPaths(deps) ==
    LET m == DependenciesMap(deps)
    IN  UNION { { m[n].extern_paths[i] : i \in 1..Len(m[n].extern_paths) } : n \in DOMAIN m }
        \cup prost_wkt_extern_paths

\* prost_build::Config::extern_path pushes the pair; building the compiler's
\* path map then refuses a proto path given twice.
HasDuplicateProtoPath(calls) ==
    \E a \in BagToSet(calls) :
        \/ CopiesIn(a, calls) > 1
        \/ \E b \in BagToSet(calls) : a # b /\ a.proto_path = b.proto_path

\* lib.rs:62-67
CreateDirAll ==
    /\ pc = "create_dir_all"
    /\ \/ pc' = "find_package" /\ result' = result
       \/ Fail("Err:create_dir_all")
    /\ UNCHANGED << inputs, pending, prost_config, descriptor, types, extern_paths,
                    spec_file, writer, out_dir, seen >>

\* lib.rs:75-102: the package lookup, then the dependency map, the aggregated
\* set and the new prost_build::Config.
Aggregate ==
    /\ pc = "find_package"
    /\ IF FindPackage(protogen_spec, package_name) = 0
       THEN /\ Fail("Err:package_not_found")
            /\ UNCHANGED << pending, prost_config >>
       ELSE /\ pc' = "extern_path_loop"
            /\ result' = result
            /\ pending' = AggregateExternPaths(dependencies)
            /\ prost_config' = [extern_paths |-> EmptyBag,
                                compile_well_known_types |->
                                    rust_package.compile_well_known_protos]
    /\ UNCHANGED << inputs, descriptor, types, extern_paths, spec_file, writer,
                    out_dir, seen >>

\* lib.rs:103-109: one iteration of the loop over the HashSet, in whatever
\* order the hasher gives.
ExternPathCall ==
    /\ pc = "extern_path_loop"
    /\ \E e \in pending :
          /\ pending' = pending \ {e}
          /\ prost_config' =
                [prost_config EXCEPT !.extern_paths = @ (+) SetToBag({e})]
    /\ UNCHANGED << inputs, pc, result, descriptor, types, extern_paths, spec_file,
                    writer, out_dir, seen >>

\* lib.rs:111-127: the compiler frontend runs; its failure panics (unwrap).
\* protoc runs first and writes the descriptor set; the extern paths are
\* looked at after that, and a proto path bound twice is refused.  So the
\* panic comes with nothing written when protoc fails, and with the descriptor
\* set written when the failure is later.
CompileProtos ==
    /\ pc = "extern_path_loop"
    /\ pending = {}
    /\ \/ /\ ~HasDuplicateProtoPath(prost_config.extern_paths)
          /\ pc' = "read_descriptor"
          /\ result' = result
          /\ out_dir' = out_dir \cup {"_descriptor.binpb", "_include.rs"}
       \/ /\ Fail("Panic:compile_protos")
          /\ \/ out_dir' = out_dir
             \/ out_dir' = out_dir \cup {"_descriptor.binpb"}
    /\ UNCHANGED << inputs, pending, prost_config, descriptor, types, extern_paths,
                    spec_file, writer, seen >>

\* lib.rs:129-134: read and decode the descriptor file; both unwrap.
ReadDescriptor ==
    /\ pc = "read_descriptor"
    /\ \/ /\ pc' = "retain"
          /\ result' = result
          /\ descriptor' = protoc_output
       \/ /\ Fail("Panic:read_descriptor")
          /\ descriptor' = descriptor
    /\ UNCHANGED << inputs, pending, prost_config, types, extern_paths, spec_file,
                    writer, out_dir, seen >>


(***************************************************************************)
(* The descriptor walker, lib.rs:136-207                                   *)
(***************************************************************************)

\* Accessors of the descriptor table: the rows satisfying Keep, in order.
RowsWhere(d, Keep(_)) ==
    SelectSeq([i \in 1..Len(d.types) |-> i], Keep)

\* file.message_type and file.enum_type
message_type(d, f) ==
    RowsWhere(d, LAMBDA i : d.types[i].parent = 0 /\ d.types[i].file = f.name
                              /\ d.types[i].kind = "Message")
file_enum_type(d, f) ==
    RowsWhere(d, LAMBDA i : d.types[i].parent = 0 /\ d.types[i].file = f.name
                              /\ d.types[i].kind = "Enum")

\* descriptor_proto.nested_type and descriptor_proto.enum_type
nested_type(d, m) ==
    RowsWhere(d, LAMBDA i : d.types[i].parent = m /\ d.types[i].kind = "Message")
enum_type(d, m) ==
    RowsWhere(d, LAMBDA i : d.types[i].parent = m /\ d.types[i].kind = "Enum")

\* lib.rs:137-142: the declared file names of every proto source group, as a set.
retain_files(pkg) ==
    UNION { { pkg.protos[g].files[i] : i \in 1..Len(pkg.protos[g].files) } :
              g \in 1..Len(pkg.protos) }

\* lib.rs:119-123: the declared files of every proto source group, one entry
\* per listing, in order.
RECURSIVE tonic_protos(_)
tonic_protos(protos) ==
    IF protos = << >> THEN << >>
    ELSE [i \in 1..Len(Head(protos).files) |->
             [dir |-> Head(protos).dir, file |-> Head(protos).files[i]]]
         \o tonic_protos(Tail(protos))

\* The filter without the package test: any file whose name is declared.
RetainFile_NameOnly(pkg, f) == f.name \in retain_files(pkg)

\* lib.rs:143-145: the predicate of descriptor.file.retain.
RetainFile(pkg, f) ==
    f.name \in retain_files(pkg) /\ pkg.proto_package_name = f.package

\* A walk over the declared listings instead of the descriptor's files: a
\* file listed in two proto source groups is taken twice.
RECURSIVE FilesPerListing(_, _, _)
FilesPerListing(pkg, file, listing) ==
    IF listing = << >> THEN << >>
    ELSE SelectSeq(file, LAMBDA f : f.name = Head(listing).file
                                     /\ pkg.proto_package_name = f.package)
         \o FilesPerListing(pkg, file, Tail(listing))

RetainedFiles_PerListing(pkg, file) ==
    FilesPerListing(pkg, file, tonic_protos(pkg.protos))

\* lib.rs:143-145: descriptor.file after retain.
RetainedFiles(pkg, file) ==
    SelectSeq(file, LAMBDA f : RetainFile(pkg, f))

\* lib.rs:147
root_rust_path(pkg) ==
    to_lower_camel_case(pkg.name)
        \o << ":", ":", "p", "r", "o", "s", "t", "_", "s", "e", "r", "d", "e" >>

\* ProtoType { proto_path, rust_path, def }; def refers to a row of the table.
ProtoType(proto_path, rust_path, kind, row) ==
    [proto_path |-> proto_path, rust_path |-> rust_path,
     def |-> [kind |-> kind, row |-> row]]

\* lib.rs:151-164: the entries pushed for one file, messages then enums.
FileSeeds(d, f, root) ==
    LET msgs == message_type(d, f)
        enums == file_enum_type(d, f)
    IN  [i \in 1..Len(msgs) |-> ProtoType(<< "." >> \o f.package, root, "Message", msgs[i])]
        \o [i \in 1..Len(enums) |-> ProtoType(<< "." >> \o f.package, root, "Enum", enums[i])]

\* lib.rs:149-165: the worklist after the loop over descriptor.file.
RECURSIVE SeedTypes(_, _, _)
SeedTypes(d, files, root) ==
    IF files = << >> THEN << >>
    ELSE FileSeeds(d, Head(files), root) \o SeedTypes(d, Tail(files), root)

\* The prefix handed down unchanged: the parent's name is left out.
ChildProtoPath_NoParentName(type_, name) == type_.proto_path

\* lib.rs:174 and 185: the proto path prefix given to a member of a message.
ChildProtoPath(type_, name) == type_.proto_path \o << "." >> \o name

\* The parent's name appended as it is, without the case conversion.
ChildRustPath_NameAsIs(type_, name) == type_.rust_path \o << ":", ":" >> \o name

\* lib.rs:175-179 and 186-190: the rust path prefix given to a member of a message.
ChildRustPath(type_, name) ==
    type_.rust_path \o << ":", ":" >> \o to_lower_camel_case(name)

\* lib.rs:195-198 and 201-204: the extern path emitted for a type.
EmittedExternPath(type_, name) ==
    ExternPath(type_.proto_path \o << "." >> \o name,
               type_.rust_path \o << ":", ":" >> \o name)

\* lib.rs:172-193: the entries pushed when a message is dequeued.
MemberTypes(d, type_) ==
    LET name == d.types[type_.def.row].name
        msgs == nested_type(d, type_.def.row)
        enums == enum_type(d, type_.def.row)
    IN  [i \in 1..Len(msgs) |->
            ProtoType(ChildProtoPath(type_, name), ChildRustPath(type_, name),
                      "Message", msgs[i])]
        \o [i \in 1..Len(enums) |->
            ProtoType(ChildProtoPath(type_, name), ChildRustPath(type_, name),
                      "Enum", enums[i])]

\* lib.rs:136-167: retain the package's own files and seed the worklist.
RetainAndSeed ==
    /\ pc = "retain"
    /\ LET kept == RetainedFiles(rust_package, descriptor.file)
       IN  /\ descriptor' = [descriptor EXCEPT !.file = kept]
           /\ types' = SeedTypes(descriptor, kept, root_rust_path(rust_package))
    /\ extern_paths' = << >>
    /\ pc' = "walk"
    /\ UNCHANGED << inputs, result, pending, prost_config, spec_file, writer,
                    out_dir, seen >>

\* lib.rs:169-207: one iteration of the while loop.
WalkStep ==
    /\ pc = "walk"
    /\ types # << >>
    /\ LET type_ == Head(types)
           name == descriptor.types[type_.def.row].name
       IN  /\ types' = IF type_.def.kind = "Message"
                       THEN Tail(types) \o MemberTypes(descriptor, type_)
                       ELSE Tail(types)
           /\ extern_paths' = Append(extern_paths, EmittedExternPath(type_, name))
    /\ UNCHANGED << inputs, pc, result, pending, prost_config, descriptor, spec_file,
                    writer, out_dir, seen >>

(***************************************************************************)
(* The package spec emitter, lib.rs:209-228                                *)
(***************************************************************************)

\* lib.rs:209-212
proto_package_spec == ProtoPackageSpec(package_name, extern_paths)

\* lib.rs:215-220: File::create truncates or creates the file; the BufWriter
\* starts empty and serde_json has every token yet to write.  What reaches
\* the file from here on is the writes the BufWriter calls for.
CreateSpecFile ==
    /\ pc = "walk"
    /\ types = << >>
    /\ \/ /\ pc' = "serialize"
          /\ result' = result
          /\ spec_file' = [exists |-> TRUE, data |-> << >>]
          /\ writer' = to_writer_pretty(proto_package_spec)
       \/ /\ Fail("Err:spec_open")
          /\ UNCHANGED << spec_file, writer >>
    /\ UNCHANGED << inputs, pending, prost_config, descriptor, types, extern_paths,
                    out_dir, seen >>

\* The file after k more tokens of chunk have reached it.
Written(file, chunk, k) == [file EXCEPT !.data = @ \o SubSeq(chunk, 1, k)]

\* lib.rs:214-228: a piece no longer fits the buffer and the BufWriter writes
\* the buffer to the file, in as many write calls as the kernel takes.  A
\* call either gets some of the bytes out, or fails: then what earlier calls
\* got out stays in the file, to_writer_pretty returns the error and build()
\* returns it; dropping the BufWriter tries once more to write what is left of
\* the buffer, which may get more of it out.
FlushChunk ==
    /\ pc = "serialize"
    /\ Len(writer) > 1
    /\ LET chunk == Head(writer)
       IN  \/ /\ \E k \in 1..(Len(chunk) - 1) :
                    /\ spec_file' = Written(spec_file, chunk, k)
                    /\ writer' = << SubSeq(chunk, k + 1, Len(chunk)) >> \o Tail(writer)
              /\ UNCHANGED << pc, result >>
           \/ /\ spec_file' = Written(spec_file, chunk, Len(chunk))
              /\ writer' = Tail(writer)
              /\ UNCHANGED << pc, result >>
           \/ /\ Fail("Err:spec_serialize")
              /\ \E k \in 0..Len(chunk) : spec_file' = Written(spec_file, chunk, k)
              /\ writer' = << >>
    /\ UNCHANGED << inputs, pending, prost_config, descriptor, types, extern_paths,
                    out_dir, seen >>

\* lib.rs:214-228: every piece is in the buffer or in the file,
\* to_writer_pretty returns Ok and the BufWriter is dropped: the drop writes
\* the buffer out like any other write, call by call, and discards the outcome,
\* so build() goes on with whatever part of the buffer got out.
FinishSerialize ==
    /\ pc = "serialize"
    /\ Len(writer) = 1
    /\ LET chunk == Head(writer)
       IN  \/ /\ \E k \in 1..(Len(chunk) - 1) :
                    /\ spec_file' = Written(spec_file, chunk, k)
                    /\ writer' = << SubSeq(chunk, k + 1, Len(chunk)) >>
              /\ pc' = pc
           \/ /\ \E k \in 0..Len(chunk) : spec_file' = Written(spec_file, chunk, k)
              /\ writer' = << >>
              /\ pc' = "templates"
    /\ UNCHANGED << inputs, result, pending, prost_config, descriptor, types,
                    extern_paths, out_dir, seen >>

(***************************************************************************)
(* Templates and serde attributes, lib.rs:230-277                          *)
(***************************************************************************)

\* lib.rs:231-241
RegisterTemplates ==
    /\ pc = "templates"
    /\ \/ pc' = "render" /\ result' = result
       \/ Fail("Err:register_template")
    /\ UNCHANGED << inputs, pending, prost_config, descriptor, types, extern_paths,
                    spec_file, writer, out_dir, seen >>

\* lib.rs:243-273: _index.rs then _metadata.rs, each created and rendered; the
\* loop ends at the first failure.
RenderOutputs ==
    /\ pc = "render"
    /\ \/ /\ pc' = "add_serde"
          /\ result' = result
          /\ out_dir' = out_dir \cup {"_index.rs", "_metadata.rs"}
       \/ /\ Fail("Err:render")
          /\ \E made \in { {}, {"_index.rs"}, {"_index.rs", "_metadata.rs"} } :
                out_dir' = out_dir \cup made
    /\ UNCHANGED << inputs, pending, prost_config, descriptor, types, extern_paths,
                    spec_file, writer, seen >>

\* lib.rs:275-277: add_serde rewrites the generated code and panics when it
\* cannot; it returns nothing, and build() returns Ok after it.
AddSerde ==
    /\ pc = "add_serde"
    /\ \/ pc' = "done" /\ result' = "Ok"
       \/ Fail("Panic:add_serde")
    /\ UNCHANGED << inputs, pending, prost_config, descriptor, types, extern_paths,
                    spec_file, writer, out_dir, seen >>

(***************************************************************************)
(* A dependent package's build reading this package's spec file            *)
(***************************************************************************)

DependentRead ==
    /\ seen' = << spec_file >>
    /\ UNCHANGED << inputs, pc, result, pending, prost_config, descriptor, types,
                    extern_paths, spec_file, writer, out_dir >>

Next ==
    \/ CreateDirAll
    \/ Aggregate
    \/ ExternPathCall
    \/ CompileProtos
    \/ ReadDescriptor
    \/ RetainAndSeed
    \/ WalkStep
    \/ CreateSpecFile
    \/ FlushChunk
    \/ FinishSerialize
    \/ RegisterTemplates
    \/ RenderOutputs
    \/ AddSerde

Spec == Init /\ [][Next]_vars

\* The build together with a dependent that reads the spec file at any time.
NextWithDependent == Next \/ DependentRead

SpecWithDependent == Init /\ [][NextWithDependent]_vars


(***************************************************************************)
(* Vocabulary of the properties                                            *)
(***************************************************************************)

\* The package being built was found in the spec.
PackageFound == FindPackage(protogen_spec, package_name) # 0

\* The while loop of the walker has just run to its end: the worklist is empty
\* and extern_paths is the list the emitter will serialize.
WalkDone == pc = "walk" /\ types = << >>

\* The compiler frontend has been invoked.
CompilerInvoked ==
    \/ pc \in {"read_descriptor", "retain", "walk", "serialize", "templates",
               "render", "add_serde"}
    \/ pc = "done" /\ result \notin {"Err:create_dir_all", "Err:package_not_found"}

\* The filtering rule: the file's name is among the declared proto sources
\* and its package is the package's declared proto package.
FileIsOwn(f) ==
    /\ \E g \in 1..Len(rust_package.protos) :
          \E k \in 1..Len(rust_package.protos[g].files) :
              rust_package.protos[g].files[k] = f.name
    /\ f.package = rust_package.proto_package_name

FileCalled(name) ==
    protoc_output.file[CHOOSE i \in 1..Len(protoc_output.file) :
                          protoc_output.file[i].name = name]

Rows == 1..Len(protoc_output.types)

\* The rows of the compiler's descriptor set declared in files the rule keeps,
\* and those declared in files it excludes.
OwnRows == { i \in Rows : FileIsOwn(FileCalled(protoc_output.types[i].file)) }
ExcludedRows == Rows \ OwnRows

\* The fully qualified name of a row: '.' package, then '.' and the name of
\* each ancestor message, then '.' and its own name.
RECURSIVE QualifiedName(_)
QualifiedName(i) ==
    LET row == protoc_output.types[i]
    IN  IF row.parent = 0
        THEN << "." >> \o FileCalled(row.file).package \o << "." >> \o row.name
        ELSE QualifiedName(row.parent) \o << "." >> \o row.name

\* The positions of extern_paths whose proto_path is path.
EntriesFor(path) == { k \in 1..Len(extern_paths) : extern_paths[k].proto_path = path }

\* The rust_path emitted for row i (when exactly one entry has its name).
RustPathOf(i) ==
    extern_paths[CHOOSE k \in 1..Len(extern_paths) :
                    extern_paths[k].proto_path = QualifiedName(i)].rust_path

\* Nesting depth of a row: 0 for a top-level type.
RECURSIVE Depth(_)
Depth(i) ==
    IF protoc_output.types[i].parent = 0 THEN 0
    ELSE 1 + Depth(protoc_output.types[i].parent)

(***************************************************************************)
(* C1                                                                      *)
(***************************************************************************)

\* C1: once the walk is over, every message and enum declared in a kept file,
\* at any depth, has exactly one entry in extern_paths whose proto_path is its
\* fully qualified name, and every entry is the entry of such a type.
C1_EveryOwnTypeEmittedOnce ==
    (PackageFound /\ WalkDone) =>
        /\ \A i \in OwnRows : Cardinality(EntriesFor(QualifiedName(i))) = 1
        /\ \A k \in 1..Len(extern_paths) :
              \E i \in OwnRows : extern_paths[k].proto_path = QualifiedName(i)

\* A finished walk of a kept file with a type nested two levels deep and a
\* message that has no member.
C1_Witness ==
    /\ PackageFound
    /\ WalkDone
    /\ \E i \in OwnRows : Depth(i) = 2
    /\ \E i \in OwnRows :
          /\ protoc_output.types[i].kind = "Message"
          /\ \A j \in Rows : protoc_output.types[j].parent # i


(***************************************************************************)
(* C2                                                                      *)
(***************************************************************************)

\* The target-path prefix given to the top-level types.
RootPrefix == root_rust_path(rust_package)

\* The module of the members of row i: the root prefix, then '::' and the
\* lower camel case form of the name of each message from the outermost down
\* to row i.
RECURSIVE ModuleOf(_)
ModuleOf(i) ==
    LET row == protoc_output.types[i]
    IN  (IF row.parent = 0 THEN RootPrefix ELSE ModuleOf(row.parent))
        \o << ":", ":" >> \o to_lower_camel_case(row.name)

\* C2 as stated: a top-level type is emitted at <root>::Name and a nested type
\* at its parent's emitted target path followed by '::' and its own name.
C2_NestedUnderParentPath ==
    (PackageFound /\ WalkDone) =>
        \A i \in OwnRows :
            LET row == protoc_output.types[i]
            IN  RustPathOf(i) =
                    (IF row.parent = 0 THEN RootPrefix ELSE RustPathOf(row.parent))
                    \o << ":", ":" >> \o row.name

\* C2 as amended: a top-level type is emitted at <root>::Name, and a nested
\* type at <root>, then '::' and the lower camel case form of each ancestor
\* message's name, outermost first, then '::' and its own name unchanged.
C2_NestedUnderParentModule ==
    (PackageFound /\ WalkDone) =>
        \A i \in OwnRows :
            LET row == protoc_output.types[i]
            IN  RustPathOf(i) =
                    (IF row.parent = 0 THEN RootPrefix ELSE ModuleOf(row.parent))
                    \o << ":", ":" >> \o row.name

\* The walk is over and has emitted .p.v1.A.B_c.A at
\* geoApi::prost_serde::a::bC::A.
C2_Witness ==
    /\ PackageFound
    /\ WalkDone
    /\ \E k \in 1..Len(extern_paths) :
          /\ extern_paths[k].proto_path =
                << ".", "p", ".", "v", "1", ".", "A", ".", "B", "_", "c", ".", "A" >>
          /\ extern_paths[k].rust_path =
                << "g", "e", "o", "A", "p", "i", ":", ":", "p", "r", "o", "s", "t", "_",
                   "s", "e", "r", "d", "e", ":", ":", "a", ":", ":", "b", "C", ":", ":",
                   "A" >>

(***************************************************************************)
(* C3                                                                      *)
(***************************************************************************)

\* C3: once the walk is over, no entry of extern_paths has the proto_path of a
\* type declared in a file the filtering rule excludes.
C3_NoPathFromExcludedFile ==
    (PackageFound /\ WalkDone) =>
        \A k \in 1..Len(extern_paths) :
            \A i \in ExcludedRows : extern_paths[k].proto_path # QualifiedName(i)

\* The walk is over and has emitted a type, while b.proto, which is declared
\* but belongs to another protobuf package, declares a type too.
C3_Witness ==
    /\ PackageFound
    /\ WalkDone
    /\ extern_paths # << >>
    /\ \E i \in ExcludedRows :
          /\ protoc_output.types[i].file = "b.proto"
          /\ "b.proto" \in retain_files(rust_package)
          /\ FileCalled("b.proto").package # rust_package.proto_package_name

(***************************************************************************)
(* C4                                                                      *)
(***************************************************************************)

\* C4: the extern_paths of the spec that build() serializes are in ascending
\* order by (proto_path, rust_path).
C4_SerializedSorted ==
    (PackageFound /\ pc = "serialize") =>
        \A k \in 1..(Len(proto_package_spec.extern_paths) - 1) :
            ExternPathCmp(proto_package_spec.extern_paths[k],
                          proto_package_spec.extern_paths[k + 1]) <= 0

(***************************************************************************)
(* C5                                                                      *)
(***************************************************************************)

\* A declared dependency has no spec among the ones supplied.
MissingDependencySpec ==
    /\ PackageFound
    /\ \E k \in 1..Len(rust_package.protogen_dependencies) :
          \A j \in 1..Len(dependencies) :
              dependencies[j].name # rust_package.protogen_dependencies[k]

\* C5: with a declared dependency whose spec is missing, the compiler frontend
\* is never invoked, the build does not succeed and the package's spec file
\* stays as the build found it.
C5_MissingDependencyFailsFirst ==
    MissingDependencySpec =>
        /\ ~CompilerInvoked
        /\ result # "Ok"
        /\ spec_file = prior_spec_file

(***************************************************************************)
(* C6                                                                      *)
(***************************************************************************)

\* C6: no proto_path is passed to prost_config.extern_path more than once, so
\* each proto_path is bound to one target path.
C6_OneCallPerProtoPath ==
    \A a \in BagToSet(prost_config.extern_paths) :
        /\ CopiesIn(a, prost_config.extern_paths) = 1
        /\ \A b \in BagToSet(prost_config.extern_paths) :
              a.proto_path = b.proto_path => a = b

(***************************************************************************)
(* C7                                                                      *)
(***************************************************************************)

\* C7: whatever a dependent reads is no file, the previous complete spec, or
\* the complete new spec.
C7_ReaderSeesWholeSpec ==
    \/ seen = << >>
    \/ seen = << prior_spec_file >>
    \/ seen = << [exists |-> TRUE, data |-> Serialize(proto_package_spec)] >>

(***************************************************************************)
(* C8                                                                      *)
(***************************************************************************)

\* The package declares at least one proto source file.
DeclaresSources == retain_files(rust_package) # {}

\* C8: a build whose filter retains no file of a package that declares
\* proto sources does not return success.
C8_EmptyPackageFails ==
    (PackageFound /\ DeclaresSources
        /\ \A i \in 1..Len(protoc_output.file) : ~FileIsOwn(protoc_output.file[i]))
    => result # "Ok"

(***************************************************************************)
(* C9                                                                      *)
(***************************************************************************)

\* C9: a build that ended in an error leaves the package's spec file as it
\* found it.
C9_FailedBuildLeavesNoSpec ==
    (pc = "done" /\ result # "Ok") => spec_file = prior_spec_file

(***************************************************************************)
(* C10                                                                     *)
(***************************************************************************)

\* C10: once the walk is over, no two entries of extern_paths have the same
\* proto_path.
C10_UniqueProtoPath ==
    WalkDone =>
    \A j, k \in 1..Len(extern_paths) :
        extern_paths[j].proto_path = extern_paths[k].proto_path => j = k

\* The walk is over for a package split across a.proto and b.proto, with
\* a.proto listed in two proto source groups, and both files have
\* contributed an entry.
C10_Witness ==
    /\ PackageFound
    /\ WalkDone
    /\ Len(rust_package.protos) = 2
    /\ \A n \in {"a.proto", "b.proto"} :
          /\ FileIsOwn(FileCalled(n))
          /\ \E i \in OwnRows : protoc_output.types[i].file = n
    /\ Len(extern_paths) = Cardinality(OwnRows)

(***************************************************************************)
(* C11                                                                     *)
(***************************************************************************)

\* C11: a build that returns success has written the whole serialized spec to
\* _proto_package_spec.json.
C11_SuccessMeansSpecWritten ==
    result = "Ok" =>
        spec_file = [exists |-> TRUE, data |-> Serialize(proto_package_spec)]

====
